---- MODULE Spec2Model ----
(***************************************************************************)
(* The SDOH store (social_determinants.db), its schema manager             *)
(* (db_setup_fresh.py), the loader (db_loader.py) and the one-off          *)
(* CDC_data.py script, as a state machine over the contents of the         *)
(* SQLite file.  One action per public operation; an action is the whole   *)
(* call, from its first statement to its return or raise.                  *)
(***************************************************************************)
EXTENDS Integers, Sequences, FiniteSets, Bags, TLC

\* ---------------------------------------------------------------- bounds
MaxBatch == 2   \* longest payload (features, results, csv rows) of one call
MaxClock == 2   \* number of load calls that read datetime.now()
MaxCsvRows == 1 \* data rows of a delimited file

\* ------------------------------------------------------------ cell values
None == "None"                       \* Python None / SQL NULL

Fips == {"01001020100"}
Scores == {"0.25", "0.75"}
LocationTypes == {"tract", "county"}
Measures == {"CSMOKING", "OBESITY"}

\* SQL equality: NULL is equal to nothing, itself included
SqlEq(a, b) == a # None /\ b # None /\ a = b

\* datetime.datetime.now().isoformat() of the c-th reading of the clock
isoformat(c) == ToString(c)

\* ------------------------------------------------------------- the schema
\* mutant: _check_database requires no table
required_tables_none == {}

required_tables == {"svi_data", "places_data", "data_sources"}

stats_tables == {"svi_data", "adi_data", "places_data", "user_locations", "data_sources"}

\* mutant: the schema without the ADI table
created_tables_no_adi == {"svi_data", "places_data", "user_locations", "data_sources"}

created_tables == {"svi_data", "adi_data", "places_data", "user_locations", "data_sources"}

\* CREATE INDEX IF NOT EXISTS <name> ON <table>(...)
created_indexes ==
    { [name |-> "idx_svi_state",            tbl |-> "svi_data"],
      [name |-> "idx_svi_county",           tbl |-> "svi_data"],
      [name |-> "idx_adi_state",            tbl |-> "adi_data"],
      [name |-> "idx_adi_county",           tbl |-> "adi_data"],
      [name |-> "idx_places_measure_id",    tbl |-> "places_data"],
      [name |-> "idx_places_location_type", tbl |-> "places_data"] }

initial_sources == {"CDC_SVI", "ADI", "CDC_PLACES"}

\* t.startswith('sqlite_'): the only internal table of this schema is the
\* one AUTOINCREMENT creates
IsInternal(t) == t = "sqlite_sequence"

\* ---------------------------------------------------------------- state
VARIABLES
    fileExists,     \* os.path.exists(db_path)
    tables,         \* SELECT name FROM sqlite_master WHERE type='table'
    indexes,        \* the explicit indexes of sqlite_master
    svi_data,       \* bag of rows [fips, overall_svi, last_updated]
    places_data,    \* bag of rows [location_id, location_type, measure_id, last_updated]
    data_sources,   \* source_name -> last_updated, for the rows of the registry
    other_rows,     \* table name -> row count, for adi_data and user_locations
    clock,          \* readings of datetime.now() so far
    loader,         \* an SDOHDatabaseLoader has been constructed
    lastOp,         \* the last call: what it was and how it ended
    result          \* the value the last call returned

store == <<fileExists, tables, indexes, svi_data, places_data, data_sources, other_rows>>

vars == <<fileExists, tables, indexes, svi_data, places_data, data_sources, other_rows,
          clock, loader, lastOp, result>>

NoResult == [kind |-> "None"]

\* how a call ended: exc = "ok" for a normal return, else the exception class;
\* line is the last source line of the path taken (the raise, or the print
\* or return that tells the branch); unclosed counts the connections the call
\* opened and did not close; delete_existing is the argument of a setup call
Outcome(op, exc, line, unclosed) ==
    [op |-> op, exc |-> exc, line |-> line, unclosed |-> unclosed,
     delete_existing |-> None]

repr(b) == IF b THEN "True" ELSE "False"

UserTables == {t \in tables : ~IsInternal(t)}

Init ==
    /\ fileExists = FALSE
    /\ tables = {}
    /\ indexes = {}
    /\ svi_data = EmptyBag
    /\ places_data = EmptyBag
    /\ data_sources = <<>>
    /\ other_rows = <<>>
    /\ clock = 0
    /\ loader = FALSE
    /\ lastOp = Outcome("init", "ok", 0, 0)
    /\ result = NoResult

\* ------------------------------------------------------------- payloads
SeqsUpTo(S, n) == UNION {[1..k -> S] : k \in 0..n}

\* a parsed JSON value: None, {} ("empty_object"), a non-empty object
\* without the features/results key ("other_object"), an object with that
\* key ("envelope") or a bare list ("list"); items is the sequence it holds
Json(kind, items) == [kind |-> kind, items |-> items]

NoJson == Json(None, <<>>)

JsonValues(Items, n) ==
    {NoJson, Json("empty_object", <<>>), Json("other_object", <<>>)}
    \cup {Json(k, items) : k \in {"envelope", "list"}, items \in SeqsUpTo(Items, n)}

\* a csv_path: None, the path of no file ("missing") or of a file with a
\* header line naming the table's columns and the data rows given
Csv(kind, rows) == [kind |-> kind, rows |-> rows]

NoCsv == Csv(None, <<>>)

CsvPaths(Rows) ==
    {NoCsv, Csv("missing", <<>>)} \cup {Csv("file", rows) : rows \in SeqsUpTo(Rows, MaxCsvRows)}

\* an api_response: None, or a requests.Response with its status_code and
\* the value its json() returns
Response(status_code, json) == [status_code |-> status_code, json |-> json]

NoResponse == Response(None, NoJson)

Responses(Items) ==
    {NoResponse, Response("500", NoJson)}
    \cup {Response("200", j) : j \in JsonValues(Items, 1) \ {NoJson}}

\* the calls of a load: json_data alone (any shape), a csv_path alone or
\* behind a json_data that is None or empty, an api_response alone
LoadArgs(Items, Rows) ==
    {[json_data |-> j, csv_path |-> NoCsv, api_response |-> NoResponse] : j \in JsonValues(Items, MaxBatch)}
    \cup {[json_data |-> j, csv_path |-> c, api_response |-> NoResponse] :
            j \in {NoJson, Json("empty_object", <<>>), Json("list", <<>>)},
            c \in CsvPaths(Rows) \ {NoCsv}}
    \cup {[json_data |-> NoJson, csv_path |-> NoCsv, api_response |-> r] :
            r \in Responses(Items) \ {NoResponse}}

\* bool(json_data)
Truthy(json_data) ==
    \/ json_data.kind \in {"envelope", "other_object"}
    \/ json_data.kind = "list" /\ json_data.items # <<>>

\* pd.read_csv infers the type of a column: a column of digit strings is read
\* as integers, which SQLite stores in a TEXT column without the leading zero
read_csv_text(cell) ==
    CASE cell = "01001020100" -> "1001020100"
      [] OTHER -> cell

\* storage faults a load may meet: none, one while to_sql inserts, one
\* between to_sql and the UPDATE of data_sources
Faults == {None, "insert", "update"}

\* ---------------------------------------------------------------- to_sql
Range(s) == {s[i] : i \in DOMAIN s}

SeqToBag(s) == [r \in Range(s) |-> Cardinality({i \in DOMAIN s : s[i] = r})]

\* the PRIMARY KEY columns of svi_data and of places_data
PrimaryKey(name) ==
    CASE name = "svi_data" -> {"fips"}
      [] name = "places_data" -> {"location_id", "measure_id"}

\* two rows conflict on a key when they agree on each of its columns; a key
\* with a NULL in it conflicts with no other
KeyEq(a, b, key) == \A column \in key : SqlEq(a[column], b[column])

\* df.to_sql(table, conn, if_exists='append', index=False): plain INSERTs in
\* one transaction that to_sql itself commits, or rolls back when an INSERT
\* fails; returns the exception raised and the rows of the table afterwards
to_sql(name, table, df, fault) ==
    LET conflict ==
            \E i \in DOMAIN df :
                \/ \E r \in BagToSet(table) : KeyEq(r, df[i], PrimaryKey(name))
                \/ \E j \in 1..(i - 1) : KeyEq(df[j], df[i], PrimaryKey(name))
    IN  IF fault = "insert" THEN [exc |-> "OperationalError", rows |-> table]
        ELSE IF conflict THEN [exc |-> "IntegrityError", rows |-> table]
        ELSE [exc |-> "ok", rows |-> table (+) SeqToBag(df)]

\* mutant: the UPDATE matches no row (wrong source_name), nothing is stamped
UpdateSource_no_match(ds, source, current_time) == ds

\* mutant: the UPDATE has no WHERE clause, every source is stamped
UpdateSource_all(ds, source, current_time) ==
    [s \in DOMAIN ds |-> current_time]

\* UPDATE data_sources SET last_updated = ? WHERE source_name = <source>
UpdateSource(ds, source, current_time) ==
    [s \in DOMAIN ds |-> IF s = source THEN current_time ELSE ds[s]]

\* ------------------------------------------------- db_setup_fresh.py
\* mutant: the DROP TABLE loop is skipped, every table keeps its rows
DropRows_keep(rows, t, dropped, empty) == rows

\* mutant: every table is recreated empty, dropped or not
DropRows_always(rows, t, dropped, empty) == empty

\* rows of a table after DROP TABLE / CREATE TABLE IF NOT EXISTS
DropRows(rows, t, dropped, empty) == IF t \in dropped THEN empty ELSE rows

\* mutant: INSERT OR IGNORE, which keeps the row a source already has
SeedSources_ignore(ds) ==
    [s \in (DOMAIN ds) \cup initial_sources |->
        IF s \in DOMAIN ds THEN ds[s] ELSE None]

\* INSERT OR REPLACE INTO data_sources ... VALUES (name, url, None, ...)
SeedSources(ds) ==
    [s \in (DOMAIN ds) \cup initial_sources |->
        IF s \in initial_sources THEN None ELSE ds[s]]

setup_fresh_database(delete_existing) ==
    LET existing_tables == tables
        tables_to_drop ==
            IF delete_existing /\ existing_tables # {}
            THEN {t \in existing_tables : ~IsInternal(t)}
            ELSE {}
        kept == existing_tables \ tables_to_drop
        keptOther == [t \in (DOMAIN other_rows) \ tables_to_drop |-> other_rows[t]]
    IN  /\ fileExists' = TRUE
        /\ tables' = kept \cup created_tables \cup {"sqlite_sequence"}
        /\ indexes' = {i \in indexes : i.tbl \notin tables_to_drop} \cup created_indexes
        /\ svi_data' = DropRows(svi_data, "svi_data", tables_to_drop, EmptyBag)
        /\ places_data' = DropRows(places_data, "places_data", tables_to_drop, EmptyBag)
        /\ data_sources' =
              SeedSources(DropRows(data_sources, "data_sources", tables_to_drop, <<>>))
        /\ other_rows' =
              [t \in (DOMAIN keptOther) \cup (created_tables \cap {"adi_data", "user_locations"}) |->
                  IF t \in DOMAIN keptOther THEN keptOther[t] ELSE 0]
        /\ lastOp' = [Outcome("setup_fresh_database", "ok", 147, 0)
                        EXCEPT !.delete_existing = repr(delete_existing)]
        /\ result' = NoResult
        /\ UNCHANGED <<clock, loader>>

Setup == \E delete_existing \in BOOLEAN : setup_fresh_database(delete_existing)

\* ------------------------------------------------------- CDC_data.py
\* conn = sqlite3.connect(...) creates the file; client.get either raises
\* (the script ends, the interpreter closes the connection) or returns n
\* records that to_sql(if_exists='replace') writes as places_smoking_data,
\* a table no other code of the repository reads
CDC_data(fetched) ==
    /\ fileExists' = TRUE
    /\ IF fetched
       THEN /\ tables' = tables \cup {"places_smoking_data"}
            /\ lastOp' = Outcome("CDC_data", "ok", 24, 0)
       ELSE /\ UNCHANGED tables
            /\ lastOp' = Outcome("CDC_data", "Exception", 13, 0)
    /\ result' = NoResult
    /\ UNCHANGED <<other_rows, indexes, svi_data, places_data, data_sources, clock, loader>>

CdcData == \E fetched \in BOOLEAN : CDC_data(fetched)

\* ------------------------------------------ SDOHDatabaseLoader.__init__
\* mutant: sqlite3.connect before the os.path.exists test, which creates the file
_check_database_connect_first ==
    /\ fileExists' = TRUE
    /\ IF \E table \in required_tables : table \notin tables
       THEN /\ lastOp' = Outcome("__init__", "ValueError", 35, 0)
            /\ UNCHANGED loader
       ELSE /\ lastOp' = Outcome("__init__", "ok", 37, 0)
            /\ loader' = TRUE
    /\ result' = NoResult
    /\ UNCHANGED <<tables, indexes, svi_data, places_data, data_sources, other_rows, clock>>

_check_database ==
    /\ IF ~fileExists
       THEN /\ lastOp' = Outcome("__init__", "FileNotFoundError", 22, 0)
            /\ UNCHANGED loader
       ELSE IF \E table \in required_tables : table \notin tables
       THEN /\ lastOp' = Outcome("__init__", "ValueError", 35, 0)
            /\ UNCHANGED loader
       ELSE /\ lastOp' = Outcome("__init__", "ok", 37, 0)
            /\ loader' = TRUE
    /\ result' = NoResult
    /\ UNCHANGED <<store, clock>>

\* ------------------------------------- SDOHDatabaseLoader.load_svi_data
SviFeatures == [FIPS : Fips \cup {None}, RPL_THEMES : Scores]

SviCsvRows == [fips : Fips, overall_svi : Scores]

SviArgs == LoadArgs(SviFeatures, SviCsvRows)

load_svi_data(json_data0, csv_path, api_response, fault) ==
    LET json_data ==
            IF api_response # NoResponse /\ api_response.status_code = "200"
            THEN api_response.json ELSE json_data0
        current_time == isoformat(clock + 1)
        features == json_data.items
        records ==
            [i \in DOMAIN features |->
                [fips |-> features[i].FIPS,
                 overall_svi |-> features[i].RPL_THEMES,
                 last_updated |-> current_time]]
        csv_df ==
            [i \in DOMAIN csv_path.rows |->
                [fips |-> read_csv_text(csv_path.rows[i].fips),
                 overall_svi |-> csv_path.rows[i].overall_svi,
                 last_updated |-> current_time]]
        df == IF Truthy(json_data) THEN records ELSE csv_df
        ins == to_sql("svi_data", svi_data, df, fault)
        Raise(exc, line, unclosed) ==
            /\ lastOp' = Outcome("load_svi_data", exc, line, unclosed)
            /\ UNCHANGED <<svi_data, data_sources>>
    IN  /\ loader
        /\ result' = NoResult
        /\ UNCHANGED <<fileExists, tables, indexes, places_data, other_rows, loader>>
        /\ IF api_response # NoResponse /\ api_response.status_code # "200"
           THEN fault = None /\ UNCHANGED clock /\ Raise("ValueError", 55, 0)
           ELSE IF json_data = NoJson /\ csv_path = NoCsv
           THEN fault = None /\ UNCHANGED clock /\ Raise("ValueError", 60, 0)
           ELSE /\ clock < MaxClock
                /\ clock' = clock + 1
                /\ IF Truthy(json_data) /\ json_data.kind = "list"
                   THEN fault = None /\ Raise("AttributeError", 68, 1)
                   ELSE IF ~Truthy(json_data) /\ csv_path = NoCsv
                   THEN fault = None /\ Raise("UnboundLocalError", 103, 1)
                   ELSE IF ~Truthy(json_data) /\ csv_path.kind = "missing"
                   THEN fault = None /\ Raise("FileNotFoundError", 89, 1)
                   ELSE IF df = <<>>
                   THEN /\ fault = None
                        /\ lastOp' = Outcome("load_svi_data", "ok", 116, 0)
                        /\ UNCHANGED <<svi_data, data_sources>>
                   ELSE IF ins.exc # "ok"
                   THEN /\ fault # "update"
                        /\ Raise(ins.exc, 104, 1)
                   ELSE IF fault = "update"
                   THEN /\ svi_data' = ins.rows
                        /\ lastOp' = Outcome("load_svi_data", "OperationalError", 109, 1)
                        /\ UNCHANGED data_sources
                   ELSE /\ svi_data' = ins.rows
                        /\ data_sources' = UpdateSource(data_sources, "CDC_SVI", current_time)
                        /\ lastOp' = Outcome("load_svi_data", "ok", 114, 0)

LoadSvi ==
    \E a \in SviArgs, fault \in Faults :
        load_svi_data(a.json_data, a.csv_path, a.api_response, fault)

\* ---------------------------------- SDOHDatabaseLoader.load_places_data
PlacesItems == [locationid : Fips, locationtype : LocationTypes, measureid : Measures]

PlacesCsvRows == [location_id : Fips, location_type : LocationTypes, measure_id : Measures]

PlacesArgs == LoadArgs(PlacesItems, PlacesCsvRows)

load_places_data(json_data0, csv_path, api_response, fault) ==
    LET json_data ==
            IF api_response # NoResponse /\ api_response.status_code = "200"
            THEN api_response.json ELSE json_data0
        current_time == isoformat(clock + 1)
        data_items == json_data.items
        records ==
            [i \in DOMAIN data_items |->
                [location_id |-> data_items[i].locationid,
                 location_type |-> data_items[i].locationtype,
                 measure_id |-> data_items[i].measureid,
                 last_updated |-> current_time]]
        csv_df ==
            [i \in DOMAIN csv_path.rows |->
                [location_id |-> read_csv_text(csv_path.rows[i].location_id),
                 location_type |-> csv_path.rows[i].location_type,
                 measure_id |-> csv_path.rows[i].measure_id,
                 last_updated |-> current_time]]
        df == IF Truthy(json_data) THEN records ELSE csv_df
        ins == to_sql("places_data", places_data, df, fault)
        Raise(exc, line, unclosed) ==
            /\ lastOp' = Outcome("load_places_data", exc, line, unclosed)
            /\ UNCHANGED <<places_data, data_sources>>
    IN  /\ loader
        /\ result' = NoResult
        /\ UNCHANGED <<fileExists, tables, indexes, svi_data, other_rows, loader>>
        /\ IF api_response # NoResponse /\ api_response.status_code # "200"
           THEN fault = None /\ UNCHANGED clock /\ Raise("ValueError", 136, 0)
           ELSE IF json_data = NoJson /\ csv_path = NoCsv
           THEN fault = None /\ UNCHANGED clock /\ Raise("ValueError", 141, 0)
           ELSE /\ clock < MaxClock
                /\ clock' = clock + 1
                /\ IF ~Truthy(json_data) /\ csv_path = NoCsv
                   THEN fault = None /\ Raise("UnboundLocalError", 188, 1)
                   ELSE IF ~Truthy(json_data) /\ csv_path.kind = "missing"
                   THEN fault = None /\ Raise("FileNotFoundError", 174, 1)
                   ELSE IF df = <<>>
                   THEN /\ fault = None
                        /\ lastOp' = Outcome("load_places_data", "ok", 201, 0)
                        /\ UNCHANGED <<places_data, data_sources>>
                   ELSE IF ins.exc # "ok"
                   THEN /\ fault # "update"
                        /\ Raise(ins.exc, 189, 1)
                   ELSE IF fault = "update"
                   THEN /\ places_data' = ins.rows
                        /\ lastOp' = Outcome("load_places_data", "OperationalError", 194, 1)
                        /\ UNCHANGED data_sources
                   ELSE /\ places_data' = ins.rows
                        /\ data_sources' = UpdateSource(data_sources, "CDC_PLACES", current_time)
                        /\ lastOp' = Outcome("load_places_data", "ok", 199, 0)

LoadPlaces ==
    \E a \in PlacesArgs, fault \in Faults :
        load_places_data(a.json_data, a.csv_path, a.api_response, fault)

\* ------------------------------ SDOHDatabaseLoader.query_location_data
\* mutant: the PLACES query without its location_type condition
query_location_data_any_type(location_id, location_type) ==
    LET svi_rows == {r \in BagToSet(svi_data) : SqlEq(r.fips, location_id)}
        rows == {r \in BagToSet(places_data) : SqlEq(r.location_id, location_id)}
        places_rows == [r \in rows |-> places_data[r]]
    IN  /\ loader
        /\ \E row \in (IF location_type = "tract" /\ svi_rows # {}
                       THEN {{r} : r \in svi_rows} ELSE {{}}) :
              result' = [kind |-> "query_location_data",
                         location_id |-> location_id,
                         location_type |-> location_type,
                         svi_data |-> row,
                         places_data |-> places_rows]
        /\ lastOp' = Outcome("query_location_data", "ok", 235, 0)
        /\ UNCHANGED <<store, clock, loader>>

\* the dict returned; svi_data is the set of the row returned, {} for None
query_location_data(location_id, location_type) ==
    LET svi_rows == {r \in BagToSet(svi_data) : SqlEq(r.fips, location_id)}
        rows == {r \in BagToSet(places_data) :
                    SqlEq(r.location_id, location_id) /\ SqlEq(r.location_type, location_type)}
        places_rows == [r \in rows |-> places_data[r]]
    IN  /\ loader
        /\ \E row \in (IF location_type = "tract" /\ svi_rows # {}
                       THEN {{r} : r \in svi_rows} ELSE {{}}) :
              result' = [kind |-> "query_location_data",
                         location_id |-> location_id,
                         location_type |-> location_type,
                         svi_data |-> row,
                         places_data |-> places_rows]
        /\ lastOp' = Outcome("query_location_data", "ok", 235, 0)
        /\ UNCHANGED <<store, clock, loader>>

QueryIds == Fips \cup {None}

Query ==
    \E location_id \in QueryIds, location_type \in LocationTypes :
        query_location_data(location_id, location_type)

\* ------------------------------- SDOHDatabaseLoader.get_database_stats
\* SELECT COUNT(*) FROM <table>
RowCount(table) ==
    CASE table = "svi_data" -> BagCardinality(svi_data)
      [] table = "places_data" -> BagCardinality(places_data)
      [] table = "data_sources" -> Cardinality(DOMAIN data_sources)
      [] OTHER -> other_rows[table]

get_database_stats ==
    /\ loader
    /\ IF \E table \in stats_tables : table \notin tables
       THEN /\ lastOp' = Outcome("get_database_stats", "OperationalError", 247, 1)
            /\ result' = NoResult
       ELSE /\ result' = [kind |-> "get_database_stats",
                          count |-> [table \in stats_tables |-> RowCount(table)],
                          last_updated |-> data_sources]
            /\ lastOp' = Outcome("get_database_stats", "ok", 257, 0)
    /\ UNCHANGED <<store, clock, loader>>

Next ==
    \/ Setup
    \/ CdcData
    \/ _check_database
    \/ LoadSvi
    \/ LoadPlaces
    \/ Query
    \/ get_database_stats

Spec == Init /\ [][Next]_vars

\* ---------------------------------------------------------------- claims
LoadOps == {"load_svi_data", "load_places_data"}

\* C1: in a load, the rows of the destination table and the last_updated of
\* its data_sources row change together or not at all: no call changes the
\* rows and leaves the registry stamp, or the other way round.
C1_LoadAtomic ==
    [][ /\ lastOp'.op = "load_svi_data" =>
              ((svi_data' # svi_data) <=> (data_sources'["CDC_SVI"] # data_sources["CDC_SVI"]))
        /\ lastOp'.op = "load_places_data" =>
              ((places_data' # places_data) <=> (data_sources'["CDC_PLACES"] # data_sources["CDC_PLACES"]))
      ]_vars

\* C2: loading one record whose key is non-null succeeds whether or not a row
\* with that key is already stored, and leaves exactly one row with that key,
\* holding the values of the record just loaded (insert-or-replace).
C2_InsertOrReplace ==
    [][ /\ \A r \in SviFeatures :
              (r.FIPS # None /\ load_svi_data(Json("envelope", <<r>>), NoCsv, NoResponse, None)) =>
                  /\ lastOp'.exc = "ok"
                  /\ \E row \in BagToSet(svi_data') :
                        /\ row.overall_svi = r.RPL_THEMES
                        /\ {x \in BagToSet(svi_data') : x.fips = r.FIPS} = {row}
                        /\ svi_data'[row] = 1
        /\ \A r \in PlacesItems :
              load_places_data(Json("list", <<r>>), NoCsv, NoResponse, None) =>
                  /\ lastOp'.exc = "ok"
                  /\ \E row \in BagToSet(places_data') :
                        /\ row.location_type = r.locationtype
                        /\ {x \in BagToSet(places_data') :
                              x.location_id = r.locationid /\ x.measure_id = r.measureid} = {row}
                        /\ places_data'[row] = 1
      ]_vars

\* C3: constructing the loader raises FileNotFoundError exactly when no file
\* is at the path, raises ValueError exactly when the file is there and one
\* of svi_data, places_data, data_sources is not, succeeds otherwise, and in
\* every case leaves the store as it was: no file and no table is created.
C3_OpenGuard ==
    [][ lastOp'.op = "__init__" =>
          LET present == {"svi_data", "places_data", "data_sources"} \subseteq tables
          IN  /\ (lastOp'.exc = "FileNotFoundError") <=> ~fileExists
              /\ (lastOp'.exc = "ValueError") <=> (fileExists /\ ~present)
              /\ (lastOp'.exc = "ok") <=> (fileExists /\ present)
              /\ lastOp'.exc = "ok" => loader'
              /\ lastOp'.exc # "ok" => loader' = loader
              /\ UNCHANGED store
      ]_vars

\* C3 witness: the loader refused a file that holds a table but not the schema
C3_Witness ==
    /\ lastOp.op = "__init__"
    /\ lastOp.exc = "ValueError"
    /\ tables = {"places_smoking_data"}

FiveTables == {"svi_data", "adi_data", "places_data", "user_locations", "data_sources"}

SixIndexes ==
    {"idx_svi_state", "idx_svi_county", "idx_adi_state", "idx_adi_county",
     "idx_places_measure_id", "idx_places_location_type"}

SeededRegistry ==
    /\ DOMAIN data_sources = {"CDC_SVI", "ADI", "CDC_PLACES"}
    /\ \A s \in DOMAIN data_sources : data_sources[s] = None

\* C4 as written: after any setup_fresh_database call the user tables are
\* exactly the five of the schema, the six indexes exist and data_sources
\* holds exactly the three seeded rows with a null last_updated.
C4_ResetPostState ==
    lastOp.op = "setup_fresh_database" =>
        /\ UserTables = FiveTables
        /\ SixIndexes \subseteq {i.name : i \in indexes}
        /\ SeededRegistry

\* C4 amended: after setup_fresh_database(path, delete_existing) the five
\* tables and the six indexes exist and data_sources holds exactly the three
\* seeded rows with a null last_updated; the user tables are exactly the five
\* when delete_existing is true, and the five together with every user table
\* that existed before, rows included, when it is false.
C4_ResetPostStateAmended ==
    [][ lastOp'.op = "setup_fresh_database" =>
          /\ UserTables' =
                FiveTables \cup (IF lastOp'.delete_existing = "True" THEN {} ELSE UserTables)
          /\ SixIndexes \subseteq {i.name : i \in indexes'}
          /\ SeededRegistry'
          /\ lastOp'.delete_existing = "True" =>
                svi_data' = EmptyBag /\ places_data' = EmptyBag
          /\ lastOp'.delete_existing = "False" =>
                svi_data' = svi_data /\ places_data' = places_data
      ]_vars

\* C4 witness: a reset without drop of a store that holds an extra user table
\* and loaded rows
C4_Witness ==
    /\ lastOp.op = "setup_fresh_database"
    /\ lastOp.delete_existing = "False"
    /\ "places_smoking_data" \in tables
    /\ svi_data # EmptyBag

\* the payloads of a load that hold no record: an object with an empty
\* features/results list, an empty object, an empty bare list, a delimited
\* file with a header line and no data row
EmptyPayloads ==
    {[json_data |-> j, csv_path |-> NoCsv, api_response |-> NoResponse] :
        j \in {Json("envelope", <<>>), Json("empty_object", <<>>), Json("list", <<>>)}}
    \cup {[json_data |-> NoJson, csv_path |-> Csv("file", <<>>), api_response |-> NoResponse]}

\* C5: a load whose payload holds no record returns normally, inserts no row
\* and leaves every data_sources.last_updated as it was.
C5_EmptyBatchNoOp ==
    [][ \A a \in EmptyPayloads :
          /\ load_svi_data(a.json_data, a.csv_path, a.api_response, None) =>
                lastOp'.exc = "ok" /\ UNCHANGED store
          /\ load_places_data(a.json_data, a.csv_path, a.api_response, None) =>
                lastOp'.exc = "ok" /\ UNCHANGED store
      ]_vars

\* C6: query_location_data(L, T) returns without error; its svi_data is the
\* svi_data row with fips = L when T is 'tract' and there is one, and None
\* otherwise; its places_data is exactly the places_data rows with
\* location_id = L and location_type = T.
C6_QueryResult ==
    (lastOp.op = "query_location_data" /\ result.location_id # None) =>
        LET L == result.location_id
            T == result.location_type
            svi == {r \in BagToSet(svi_data) : r.fips = L}
            places == {r \in BagToSet(places_data) : r.location_id = L /\ r.location_type = T}
        IN  /\ lastOp.exc = "ok"
            /\ result.svi_data = (IF T = "tract" THEN svi ELSE {})
            /\ Cardinality(result.svi_data) <= 1
            /\ DOMAIN result.places_data = places
            /\ \A r \in places : result.places_data[r] = places_data[r]

\* C6 witness: the query of a tract that has its SVI row and two PLACES rows
C6_Witness ==
    /\ lastOp.op = "query_location_data"
    /\ result.location_type = "tract"
    /\ result.svi_data # {}
    /\ BagCardinality(result.places_data) = 2

\* C7: on a store the loader opened, get_database_stats returns without
\* error the row count of each of the five tables and the last_updated of
\* every registry row, and changes nothing in the store.
C7_Stats ==
    [][ lastOp'.op = "get_database_stats" =>
          /\ lastOp'.exc = "ok"
          /\ DOMAIN result'.count = FiveTables
          /\ result'.count["svi_data"] = BagCardinality(svi_data)
          /\ result'.count["places_data"] = BagCardinality(places_data)
          /\ result'.count["data_sources"] = Cardinality(DOMAIN data_sources)
          /\ result'.count["adi_data"] = 0
          /\ result'.count["user_locations"] = 0
          /\ result'.last_updated = data_sources
          /\ UNCHANGED store
      ]_vars

\* C7 witness: statistics of a store that holds loaded rows and a stamp
C7_Witness ==
    /\ lastOp.op = "get_database_stats"
    /\ lastOp.exc = "ok"
    /\ result.count["svi_data"] > 0
    /\ result.last_updated["CDC_SVI"] # None

\* C8: a load that raises leaves the rows of every table and every
\* data_sources.last_updated as they were before the call.
C8_FailedLoadUnchanged ==
    [][ (lastOp'.op \in LoadOps /\ lastOp'.exc # "ok") => UNCHANGED store ]_vars

\* C9: every call has closed every connection it opened by the time it
\* returns or raises.
C9_HandlesReleased == lastOp.unclosed = 0

\* C10: a load given no data source raises ValueError before it opens a
\* connection, and no other exception is raised on account of the payload:
\* whatever else a load raises comes from the storage engine or from a file
\* that is not there.
C10_InvalidInput ==
    lastOp.op \in LoadOps =>
        /\ lastOp.exc \in {"ok", "ValueError", "FileNotFoundError",
                           "IntegrityError", "OperationalError"}
        /\ lastOp.exc = "ValueError" => lastOp.unclosed = 0

\* C11: setup_fresh_database(path, delete_existing=True) returns normally
\* from every prior store state and leaves exactly the five empty tables, the
\* six indexes and the three registry rows with a null last_updated, every
\* other user table and every loaded row dropped; a second run right after
\* the first leaves the store as the first left it.
C11_ResetIdempotent ==
    [][ (lastOp'.op = "setup_fresh_database" /\ lastOp'.delete_existing = "True") =>
          /\ lastOp'.exc = "ok"
          /\ fileExists'
          /\ tables' \ {"sqlite_sequence"} = FiveTables
          /\ {i.name : i \in indexes'} = SixIndexes
          /\ svi_data' = EmptyBag
          /\ places_data' = EmptyBag
          /\ data_sources' = [s \in {"CDC_SVI", "ADI", "CDC_PLACES"} |-> None]
          /\ other_rows' = [t \in {"adi_data", "user_locations"} |-> 0]
          /\ (lastOp.op = "setup_fresh_database" /\ lastOp.delete_existing = "True") =>
                store' = store
      ]_vars

\* C11 witness: a reset with drop that ran after load calls stamped rows,
\* the store back to the empty schema
C11_Witness ==
    /\ lastOp.op = "setup_fresh_database"
    /\ lastOp.delete_existing = "True"
    /\ clock = MaxClock
    /\ loader
    /\ svi_data = EmptyBag
    /\ "places_smoking_data" \notin tables

\* the rows a step adds to a table
Written(before, after) == BagToSet(after (-) before)

\* the source's registry stamp, when set, is the stamp of rows of its table
StampOfRows(source, table) ==
    (source \in DOMAIN data_sources /\ data_sources[source] # None) =>
        \E r \in BagToSet(table) : r.last_updated = data_sources[source]

\* C12: a successful non-empty load_svi_data (load_places_data) call writes
\* rows that all carry one last_updated value and sets the last_updated of
\* CDC_SVI (CDC_PLACES) to that value; in every state a non-null registry
\* stamp of a source is the last_updated of rows of its table.
C12_OneStamp ==
    [][ /\ (lastOp'.op = "load_svi_data" /\ lastOp'.line = 114) =>
              /\ Written(svi_data, svi_data') # {}
              /\ \A r \in Written(svi_data, svi_data') :
                    r.last_updated = data_sources'["CDC_SVI"]
              /\ data_sources'["CDC_SVI"] # None
        /\ (lastOp'.op = "load_places_data" /\ lastOp'.line = 199) =>
              /\ Written(places_data, places_data') # {}
              /\ \A r \in Written(places_data, places_data') :
                    r.last_updated = data_sources'["CDC_PLACES"]
              /\ data_sources'["CDC_PLACES"] # None
        /\ StampOfRows("CDC_SVI", svi_data)'
        /\ StampOfRows("CDC_PLACES", places_data)'
      ]_vars

\* C12 witness: a second successful load has written two rows with the new
\* stamp next to a row of the first load
C12_Witness ==
    /\ lastOp.op = "load_places_data"
    /\ lastOp.line = 199
    /\ Cardinality({r \in BagToSet(places_data) :
                        r.last_updated = data_sources["CDC_PLACES"]}) = 2
    /\ \E r \in BagToSet(places_data) : r.last_updated # data_sources["CDC_PLACES"]

\* C13: for every sequence S of PLACES items, the empty one included, a call
\* load_places_data(json_data=S) and a call load_places_data(json_data=
\* {'results': S}) from the same state both succeed or both fail and leave
\* the same places_data rows and the same registry stamps.
C13_ShapeUniform ==
    [][ \A S \in SeqsUpTo(PlacesItems, MaxBatch), fault \in Faults :
          load_places_data(Json("list", S), NoCsv, NoResponse, fault) =>
            \E ok \in {lastOp'.exc = "ok"}, rows \in {places_data'}, ds \in {data_sources'} :
                ENABLED ( /\ load_places_data(Json("envelope", S), NoCsv, NoResponse, fault)
                          /\ (lastOp'.exc = "ok") = ok
                          /\ places_data' = rows
                          /\ data_sources' = ds )
      ]_vars

\* the store is Ready: the three tables the Loader requires exist
Ready == {"svi_data", "places_data", "data_sources"} \subseteq tables

LoaderOps ==
    {"load_svi_data", "load_places_data", "query_location_data", "get_database_stats"}

C15_KeyUnique ==
    /\ \A r \in BagToSet(svi_data) :
          /\ svi_data[r] = 1
          /\ \A q \in BagToSet(svi_data) : q.fips = r.fips => q = r
    /\ \A r \in BagToSet(places_data) :
          /\ places_data[r] = 1
          /\ \A q \in BagToSet(places_data) :
                (q.location_id = r.location_id /\ q.measure_id = r.measure_id) => q = r

\* what no load touches: the file, the tables and indexes, the rows of
\* adi_data and user_locations, the set of registry rows and the ADI stamp
LoadFrame ==
    /\ fileExists' = fileExists
    /\ tables' = tables
    /\ indexes' = indexes
    /\ other_rows' = other_rows
    /\ DOMAIN data_sources' = DOMAIN data_sources
    /\ data_sources'["ADI"] = data_sources["ADI"]

LoadSources == {"CDC_SVI", "CDC_PLACES"}

\* C16: a load_svi_data call, successful or failed, changes at most the rows
\* of svi_data and the last_updated of CDC_SVI, and a load_places_data call
\* at most the rows of places_data and the last_updated of CDC_PLACES; on a
\* Ready store adi_data and user_locations are empty, the ADI stamp is null
\* and data_sources holds exactly its three seeded rows; the UPDATE of a load
\* adds no registry row, also when the row it targets is missing.
C16_LoadFrame ==
    [][ /\ lastOp'.op = "load_svi_data" =>
              /\ LoadFrame
              /\ places_data' = places_data
              /\ data_sources'["CDC_PLACES"] = data_sources["CDC_PLACES"]
        /\ lastOp'.op = "load_places_data" =>
              /\ LoadFrame
              /\ svi_data' = svi_data
              /\ data_sources'["CDC_SVI"] = data_sources["CDC_SVI"]
        /\ ({"svi_data", "places_data", "data_sources"} \subseteq tables') =>
              /\ other_rows'["adi_data"] = 0
              /\ other_rows'["user_locations"] = 0
              /\ DOMAIN data_sources' = {"CDC_SVI", "ADI", "CDC_PLACES"}
              /\ data_sources'["ADI"] = None
        /\ \A D \in SUBSET {"CDC_SVI", "ADI", "CDC_PLACES"}, source \in LoadSources :
              DOMAIN UpdateSource([s \in D |-> None], source, isoformat(clock')) = D
      ]_vars

\* C16 witness: a successful load_svi_data on a store whose places_data
\* already holds rows stamped by an earlier load_places_data
C16_Witness ==
    /\ lastOp.op = "load_svi_data"
    /\ lastOp.line = 114
    /\ places_data # EmptyBag
    /\ data_sources["CDC_PLACES"] = "1"
    /\ data_sources["CDC_SVI"] = "2"
    /\ data_sources["ADI"] = None

\* C17: setup_fresh_database(path, delete_existing=False) on a Ready store
\* keeps every table, every index and every row of svi_data, places_data,
\* adi_data and user_locations, and leaves CDC_SVI, ADI and CDC_PLACES with a
\* null last_updated whatever their stamps were.
C17_ResetWithoutDrop ==
    [][ ( /\ lastOp'.op = "setup_fresh_database"
          /\ lastOp'.delete_existing = "False"
          /\ {"svi_data", "places_data", "data_sources"} \subseteq tables ) =>
            /\ lastOp'.exc = "ok"
            /\ tables \subseteq tables'
            /\ indexes \subseteq indexes'
            /\ svi_data' = svi_data
            /\ places_data' = places_data
            /\ \A t \in DOMAIN other_rows : other_rows'[t] = other_rows[t]
            /\ DOMAIN data_sources' = DOMAIN data_sources
            /\ \A s \in {"CDC_SVI", "ADI", "CDC_PLACES"} : data_sources'[s] = None
      ]_vars

\* C17 witness: after loads of both sources and a reset without drop, both
\* tables hold stamped rows while no source has a last_updated
C17_Witness ==
    /\ lastOp.op = "setup_fresh_database"
    /\ lastOp.delete_existing = "False"
    /\ \E r \in BagToSet(svi_data) : r.last_updated = "1"
    /\ \E r \in BagToSet(places_data) : r.last_updated = "2"
    /\ data_sources["CDC_SVI"] = None
    /\ data_sources["CDC_PLACES"] = None

====
